---------------------------- MODULE Spec2Model ----------------------------
(***************************************************************************)
(* A model of the battle viewer (Data/battle_viewer.py) and of the re-run  *)
(* supervisor (Data/auto_rerun_wrapper.py).                                *)
(*                                                                         *)
(* A Python str is a sequence of one-character strings, the characters     *)
(* being those of U+0000..U+00FF and U+1680; a text file is the sequence   *)
(* of its decoded characters, line terminators included; an Optional[str]  *)
(* is the empty sequence (None) or a one-element sequence holding the      *)
(* string.                                                                 *)
(***************************************************************************)
EXTENDS Integers, Sequences, FiniteSets, TLC

VARIABLES
    pc,                 \* position of the running pipeline
    text,               \* the input file, as its characters
    mode,               \* iter_battles: which parser the peek selected
    blocks,             \* iter_battles: the BattleBlocks yielded, in order
    matchup,            \* get_battle_by_matchup: the key asked for
    occurrence,         \* get_battle_by_matchup: the occurrence asked for
    selected,           \* get_battle_by_matchup: block returned or error raised
    protocol_lines,     \* override_players / build_replay_object: the input lines
    overrides,          \* override_players: p1_name, p2_name, p1_avatar, p2_avatar
    out,                \* override_players: the list returned
    out_again,          \* override_players applied to its own result
    replay,             \* build_replay_object: p1, p2, format, timestamp, log
    current_iteration,  \* main_loop: files completed so far
    output_file,        \* main_loop: what the path of the current iteration holds
    last_check,         \* main_loop: what is_output_valid returned last
    observed_valid,     \* history: iterations whose file was observed valid
    retries             \* history: simulation runs for the file the loop is at
                        \* (or was at last), saturating at MaxRetries

vars == << pc, text, mode, blocks, matchup, occurrence, selected,
           protocol_lines, overrides, out, out_again, replay,
           current_iteration, output_file, last_check, observed_valid,
           retries >>

segVars == << text, mode, blocks, matchup, occurrence, selected >>
rwVars  == << protocol_lines, overrides, out, out_again, replay >>
supVars == << current_iteration, output_file, last_check, observed_valid, retries >>

-----------------------------------------------------------------------------
(* Python str primitives *)

None == << >>
Some(s) == << s >>
IsNone(o) == Len(o) = 0
Value(o) == o[1]

\* U+001C..U+001F, the ASCII separators: whitespace to str.isspace(), not to
\* int()
AsciiSeparators == { "", "", "", "" }

\* the characters c with c.isspace(): U+0009..U+000D, U+001C..U+001F, U+0020,
\* U+0085, U+00A0 and U+1680
WhiteSpace ==
    { "\t", "\n", "", "\f", "\r", " ", "", " ", " " }
        \cup AsciiSeparators

IsSpace(c) == c \in WhiteSpace

RECURSIVE LStripOf(_, _)
LStripOf(s, chars) ==
    IF Len(s) = 0 THEN s
    ELSE IF Head(s) \in chars THEN LStripOf(Tail(s), chars)
    ELSE s

RECURSIVE RStripOf(_, _)
RStripOf(s, chars) ==
    IF Len(s) = 0 THEN s
    ELSE IF s[Len(s)] \in chars THEN RStripOf(SubSeq(s, 1, Len(s) - 1), chars)
    ELSE s

\* str.lstrip(), str.rstrip() and str.strip() with no argument trim whitespace
LStrip(s) == LStripOf(s, WhiteSpace)
RStrip(s) == RStripOf(s, WhiteSpace)
Strip(s) == RStrip(LStrip(s))

StartsWith(s, prefix) ==
    /\ Len(s) >= Len(prefix)
    /\ SubSeq(s, 1, Len(prefix)) = prefix

\* the `in` operator on two strings
Contains(s, sub) ==
    \E i \in 0..(Len(s) - Len(sub)) : SubSeq(s, i + 1, i + Len(sub)) = sub

\* the characters c with c.lower() != c, and what c.lower() is
UpperCase == << "A", "B", "C", "D", "E", "F", "G", "H", "I", "J", "K", "L", "M",
                "N", "O", "P", "Q", "R", "S", "T", "U", "V", "W", "X", "Y", "Z",
                "À", "Á", "Â", "Ã", "Ä", "Å", "Æ", "Ç", "È", "É", "Ê", "Ë", "Ì",
                "Í", "Î", "Ï", "Ð", "Ñ", "Ò", "Ó", "Ô", "Õ", "Ö", "Ø", "Ù", "Ú",
                "Û", "Ü", "Ý", "Þ" >>
LowerCase == << "a", "b", "c", "d", "e", "f", "g", "h", "i", "j", "k", "l", "m",
                "n", "o", "p", "q", "r", "s", "t", "u", "v", "w", "x", "y", "z",
                "à", "á", "â", "ã", "ä", "å", "æ", "ç", "è", "é", "ê", "ë", "ì",
                "í", "î", "ï", "ð", "ñ", "ò", "ó", "ô", "õ", "ö", "ø", "ù", "ú",
                "û", "ü", "ý", "þ" >>

LowerChar(c) ==
    IF \E i \in DOMAIN UpperCase : UpperCase[i] = c
    THEN LowerCase[CHOOSE i \in DOMAIN UpperCase : UpperCase[i] = c]
    ELSE c

\* str.lower()
Lower(s) == [i \in 1..Len(s) |-> LowerChar(s[i])]

\* reading in text mode with newline=None: "\r\n" and "\r" are read as "\n"
RECURSIVE UniversalNewlines(_)
UniversalNewlines(s) ==
    IF Len(s) = 0 THEN s
    ELSE IF Head(s) = "\r"
    THEN << "\n" >> \o UniversalNewlines(IF Len(s) > 1 /\ s[2] = "\n"
                                         THEN SubSeq(s, 3, Len(s))
                                         ELSE Tail(s))
    ELSE << Head(s) >> \o UniversalNewlines(Tail(s))

\* Path.read_text() and f.read(): the whole file as one string
ReadText(file) == UniversalNewlines(file)

\* the pieces between the "\n" of s, `line` being the piece begun; a last
\* piece that is empty is no line
RECURSIVE SplitLines(_, _)
SplitLines(s, line) ==
    IF Len(s) = 0 THEN (IF Len(line) = 0 THEN << >> ELSE << line >>)
    ELSE IF Head(s) = "\n" THEN << line >> \o SplitLines(Tail(s), << >>)
    ELSE SplitLines(Tail(s), Append(line, Head(s)))

\* `for raw in f: line = raw.rstrip("\n")`: the lines of the file, in order
FileLines(file) == SplitLines(ReadText(file), << >>)

-----------------------------------------------------------------------------
(* Parsing battles: iter_battles_marked, parse_single_battle_fallback,     *)
(* iter_battles                                                            *)

START == << "[", "[", "[", "[", "[" >>
END == << "]", "]", "]", "]", "]" >>
PIPE == << "|" >>
UNKNOWN_MATCHUP == << "U", "N", "K", "N", "O", "W", "N", "_",
                      "M", "A", "T", "C", "H", "U", "P" >>

\* `header or "UNKNOWN_MATCHUP"`: None and the empty string are both falsy
HeaderOrUnknown(h) ==
    IF IsNone(h) \/ Len(Value(h)) = 0 THEN UNKNOWN_MATCHUP ELSE Value(h)

BattleBlock(h, pl) == [header |-> h, protocol_lines |-> pl]

MarkedInit ==
    [in_block |-> FALSE, waiting_for_header |-> FALSE, header |-> None,
     protocol_lines |-> << >>, yielded |-> << >>]

\* a scan that compares the raw line with the sigils, without strip()
MarkedStepNoStrip(st, line) ==
    IF ~st.in_block
    THEN IF line = START
         THEN [st EXCEPT !.in_block = TRUE, !.waiting_for_header = TRUE,
                         !.header = None, !.protocol_lines = << >>]
         ELSE st
    ELSE IF line = END
    THEN [st EXCEPT !.yielded = Append(@, BattleBlock(HeaderOrUnknown(st.header),
                                                      st.protocol_lines)),
                    !.in_block = FALSE, !.waiting_for_header = FALSE,
                    !.header = None, !.protocol_lines = << >>]
    ELSE IF st.waiting_for_header
    THEN IF Len(Strip(line)) > 0
         THEN [st EXCEPT !.header = Some(Strip(line)), !.waiting_for_header = FALSE]
         ELSE st
    ELSE IF StartsWith(line, PIPE)
    THEN [st EXCEPT !.protocol_lines = Append(@, line)]
    ELSE st

\* one turn of the `for raw in f` loop of iter_battles_marked
MarkedStep(st, line) ==
    IF ~st.in_block
    THEN IF Strip(line) = START
         THEN [st EXCEPT !.in_block = TRUE, !.waiting_for_header = TRUE,
                         !.header = None, !.protocol_lines = << >>]
         ELSE st
    ELSE IF Strip(line) = END
    THEN [st EXCEPT !.yielded = Append(@, BattleBlock(HeaderOrUnknown(st.header),
                                                      st.protocol_lines)),
                    !.in_block = FALSE, !.waiting_for_header = FALSE,
                    !.header = None, !.protocol_lines = << >>]
    ELSE IF st.waiting_for_header
    THEN IF Len(Strip(line)) > 0
         THEN [st EXCEPT !.header = Some(Strip(line)), !.waiting_for_header = FALSE]
         ELSE st
    ELSE IF StartsWith(line, PIPE)
    THEN [st EXCEPT !.protocol_lines = Append(@, line)]
    ELSE st

RECURSIVE MarkedScan(_, _)
MarkedScan(st, lines) ==
    IF Len(lines) = 0 THEN st
    ELSE MarkedScan(MarkedStep(st, Head(lines)), Tail(lines))

\* a scan that also yields the block still open at the end of the file
iter_battles_marked_flush(file) ==
    LET st == MarkedScan(MarkedInit, FileLines(file))
    IN  IF st.in_block
        THEN Append(st.yielded, BattleBlock(HeaderOrUnknown(st.header),
                                            st.protocol_lines))
        ELSE st.yielded

\* the generator ends with the file: whatever block is open is dropped
iter_battles_marked(file) == MarkedScan(MarkedInit, FileLines(file)).yielded

FallbackInit == [header |-> None, protocol_lines |-> << >>]

\* one turn of the `for raw in f` loop of parse_single_battle_fallback
FallbackStep(st, line) ==
    IF Len(Strip(line)) = 0 THEN st
    ELSE IF IsNone(st.header) /\ ~StartsWith(line, PIPE)
    THEN [st EXCEPT !.header = Some(Strip(line))]
    ELSE IF StartsWith(line, PIPE)
    THEN [st EXCEPT !.protocol_lines = Append(@, line)]
    ELSE st

RECURSIVE FallbackScan(_, _)
FallbackScan(st, lines) ==
    IF Len(lines) = 0 THEN st
    ELSE FallbackScan(FallbackStep(st, Head(lines)), Tail(lines))

parse_single_battle_fallback(file) ==
    LET st == FallbackScan(FallbackInit, FileLines(file))
    IN  BattleBlock(HeaderOrUnknown(st.header), st.protocol_lines)

\* the peek of iter_battles: `START in text and END in text`
MarkerFormat(file) ==
    /\ Contains(ReadText(file), START)
    /\ Contains(ReadText(file), END)

iter_battles(file) ==
    IF MarkerFormat(file)
    THEN iter_battles_marked(file)
    ELSE << parse_single_battle_fallback(file) >>

-----------------------------------------------------------------------------
(* Selecting a battle: get_battle_by_matchup                               *)

Returned(b, n) ==
    [raised |-> "", block |-> Some(b), key |-> None, at |-> 0, seen |-> n]

\* ValueError(f'No matchup "{matchup}" found at occurrence {occurrence}.')
ValueError(m, occ, n) ==
    [raised |-> "ValueError", block |-> None, key |-> Some(m), at |-> occ, seen |-> n]

\* a loop whose `hits += 1` stands outside the header test
RECURSIVE MatchupLoopCountsAll(_, _, _, _, _, _)
MatchupLoopCountsAll(bs, i, target, m, occ, hits) ==
    IF i > Len(bs) THEN ValueError(m, occ, Len(bs))
    ELSE IF Lower(Strip(bs[i].header)) = target /\ hits = occ
    THEN Returned(bs[i], i)
    ELSE MatchupLoopCountsAll(bs, i + 1, target, m, occ, hits + 1)

\* the `for block in iter_battles(path)` loop, from block i on
RECURSIVE MatchupLoop(_, _, _, _, _, _)
MatchupLoop(bs, i, target, m, occ, hits) ==
    IF i > Len(bs) THEN ValueError(m, occ, Len(bs))
    ELSE IF Lower(Strip(bs[i].header)) = target
    THEN IF hits = occ
         THEN Returned(bs[i], i)
         ELSE MatchupLoop(bs, i + 1, target, m, occ, hits + 1)
    ELSE MatchupLoop(bs, i + 1, target, m, occ, hits)

get_battle_by_matchup(file, m, occ) ==
    MatchupLoop(iter_battles(file), 1, Lower(Strip(m)), m, occ, 0)

-----------------------------------------------------------------------------
(* Overriding player names and avatars: override_players                   *)

\* the index of the first '|' of s, or 0
FirstPipe(s) ==
    IF \E i \in 1..Len(s) : s[i] = "|"
    THEN CHOOSE i \in 1..Len(s) : s[i] = "|" /\ \A j \in 1..(i - 1) : s[j] # "|"
    ELSE 0

\* str.split("|")
RECURSIVE Split(_)
Split(s) ==
    IF FirstPipe(s) = 0 THEN << s >>
    ELSE << SubSeq(s, 1, FirstPipe(s) - 1) >>
             \o Split(SubSeq(s, FirstPipe(s) + 1, Len(s)))

\* "|".join(parts), parts not empty
RECURSIVE Join(_)
Join(parts) ==
    IF Len(parts) = 1 THEN parts[1]
    ELSE parts[1] \o PIPE \o Join(Tail(parts))

PLAYER_P1 == << "|", "p", "l", "a", "y", "e", "r", "|", "p", "1", "|" >>
PLAYER_P2 == << "|", "p", "l", "a", "y", "e", "r", "|", "p", "2", "|" >>
START_LINE == << "|", "s", "t", "a", "r", "t", "|" >>
DefaultP1 == << "p", "1" >>
DefaultP2 == << "p", "2" >>
DefaultAvatar == << "1" >>

\* fix_player_line pads the split line to this many parts
PlayerParts == 6

\* `while len(parts) < 6: parts.append("")`
RECURSIVE PadParts(_)
PadParts(parts) ==
    IF Len(parts) < PlayerParts THEN PadParts(Append(parts, << >>)) ELSE parts

\* parts[3] and parts[4] of the code are parts[4] and parts[5] here
fix_player_line(line, name, avatar) ==
    LET parts == PadParts(Split(line))
        named == IF ~IsNone(name) THEN [parts EXCEPT ![4] = Value(name)] ELSE parts
        both == IF ~IsNone(avatar) THEN [named EXCEPT ![5] = Value(avatar)] ELSE named
    IN  Join(both)

\* the first loop: every player line rewritten in place
RewriteLoop(lines, o) ==
    [i \in 1..Len(lines) |->
        IF StartsWith(lines[i], PLAYER_P1)
        THEN fix_player_line(lines[i], o.p1_name, o.p1_avatar)
        ELSE IF StartsWith(lines[i], PLAYER_P2)
        THEN fix_player_line(lines[i], o.p2_name, o.p2_avatar)
        ELSE lines[i]]

FoundP1(lines) == \E i \in 1..Len(lines) : StartsWith(lines[i], PLAYER_P1)
FoundP2(lines) ==
    \E i \in 1..Len(lines) :
        ~StartsWith(lines[i], PLAYER_P1) /\ StartsWith(lines[i], PLAYER_P2)

\* the second loop: the zero-based index of the first |start| line, or 0
InsertAt(lines) ==
    IF \E i \in 1..Len(lines) : StartsWith(lines[i], START_LINE)
    THEN (CHOOSE i \in 1..Len(lines) :
              /\ StartsWith(lines[i], START_LINE)
              /\ \A j \in 1..(i - 1) : ~StartsWith(lines[j], START_LINE)) - 1
    ELSE 0

\* list.insert(at, x), 0 <= at <= len
ListInsert(lines, at, x) ==
    SubSeq(lines, 1, at) \o << x >> \o SubSeq(lines, at + 1, Len(lines))

\* `a or b` on an Optional[str]: None and "" are both falsy
OrElse(o, default) == IF IsNone(o) \/ Len(Value(o)) = 0 THEN default ELSE Value(o)

\* f"|player|{side}|{name}|{avatar}|"
PlayerLine(prefix, name, avatar) == prefix \o name \o PIPE \o avatar \o PIPE

override_players(lines, o) ==
    LET rewritten == RewriteLoop(lines, o)
        insert_at == InsertAt(rewritten)
        with_p1 ==
            IF ~FoundP1(lines) /\ (~IsNone(o.p1_name) \/ ~IsNone(o.p1_avatar))
            THEN ListInsert(rewritten, insert_at,
                            PlayerLine(PLAYER_P1, OrElse(o.p1_name, DefaultP1),
                                       OrElse(o.p1_avatar, DefaultAvatar)))
            ELSE rewritten
    IN  IF ~FoundP2(lines) /\ (~IsNone(o.p2_name) \/ ~IsNone(o.p2_avatar))
        THEN ListInsert(with_p1, insert_at,
                        PlayerLine(PLAYER_P2, OrElse(o.p2_name, DefaultP2),
                                   OrElse(o.p2_avatar, DefaultAvatar)))
        ELSE with_p1

-----------------------------------------------------------------------------
(* Building the replay object: build_replay_object                         *)

TIER == << "|", "t", "i", "e", "r", "|" >>
T_LINE == << "|", "t", ":", "|" >>
CustomGame == << "C", "u", "s", "t", "o", "m", " ", "G", "a", "m", "e" >>
Digits == << "0", "1", "2", "3", "4", "5", "6", "7", "8", "9" >>

IsDigit(c) == \E i \in DOMAIN Digits : Digits[i] = c
DigitValue(c) == (CHOOSE i \in DOMAIN Digits : Digits[i] = c) - 1

\* the characters int() skips around a literal: whitespace other than the
\* ASCII separators
IntSpace == WhiteSpace \ AsciiSeparators

\* the digits of an int literal: digits with single '_' between them
WellFormedDigits(s) ==
    /\ Len(s) > 0
    /\ \A i \in 1..Len(s) : IsDigit(s[i]) \/ s[i] = "_"
    /\ IsDigit(s[1]) /\ IsDigit(s[Len(s)])
    /\ \A i \in 1..(Len(s) - 1) : ~(s[i] = "_" /\ s[i + 1] = "_")

\* the values of the digits of a literal, most significant first
DigitValues(s) ==
    LET ds == SelectSeq(s, IsDigit)
    IN  [i \in 1..Len(ds) |-> DigitValue(ds[i])]

DropLeadingZeros(ds) ==
    IF \A i \in 1..Len(ds) : ds[i] = 0 THEN << >>
    ELSE SubSeq(ds, CHOOSE i \in 1..Len(ds) :
                        ds[i] # 0 /\ \A j \in 1..(i - 1) : ds[j] = 0,
                Len(ds))

\* a Python int, which has no width: its sign and the decimal digits of its
\* magnitude, zero being the empty sequence of digits
PyInt(negative, ds) ==
    [negative |-> negative /\ Len(DropLeadingZeros(ds)) > 0,
     digits |-> DropLeadingZeros(ds)]

\* int(s): None stands for the ValueError, which int() also raises for a
\* literal of more than 4300 digits (sys.get_int_max_str_digits()), leading
\* zeros counted, sign, '_' and surrounding whitespace not
ParseInt(s) ==
    LET t == RStripOf(LStripOf(s, IntSpace), IntSpace)
        signed == Len(t) > 0 /\ t[1] \in {"+", "-"}
        body == IF signed THEN Tail(t) ELSE t
    IN  IF ~WellFormedDigits(body) THEN None
        ELSE IF Len(SelectSeq(body, IsDigit)) > 4300 THEN None
        ELSE Some(PyInt(signed /\ t[1] = "-", DigitValues(body)))

\* the quotient and the remainder of a magnitude divided by the 86400
\* seconds of a day, by long division
RECURSIVE DivModDay(_, _, _)
DivModDay(ds, q, r) ==
    IF Len(ds) = 0 THEN << q, r >>
    ELSE DivModDay(Tail(ds), 10 * q + ((10 * r + Head(ds)) \div 86400),
                   (10 * r + Head(ds)) % 86400)

\* the date of a day counted from 1970-01-01, in the proleptic Gregorian
\* calendar
CivilFromDays(days) ==
    LET z == days + 719468
        era == z \div 146097
        doe == z - era * 146097
        yoe == (doe - (doe \div 1460) + (doe \div 36524) - (doe \div 146096)) \div 365
        doy == doe - (365 * yoe + (yoe \div 4) - (yoe \div 100))
        mp == (5 * doy + 2) \div 153
        month == IF mp < 10 THEN mp + 3 ELSE mp - 9
    IN  [year |-> yoe + era * 400 + (IF month <= 2 THEN 1 ELSE 0),
         month |-> month,
         day |-> doy - ((153 * mp + 2) \div 5) + 1]

\* datetime.fromtimestamp(epoch, tz=timezone.utc): None stands for the
\* OverflowError or ValueError raised for an epoch before year 1 or after
\* year 9999
FromTimestamp(epoch) ==
    IF Len(epoch.digits) > 12 THEN None
    ELSE LET qr == DivModDay(epoch.digits, 0, 0)
             days == IF ~epoch.negative THEN qr[1]
                     ELSE IF qr[2] = 0 THEN 0 - qr[1]
                     ELSE 0 - qr[1] - 1
             secs == IF epoch.negative /\ qr[2] # 0 THEN 86400 - qr[2] ELSE qr[2]
             date == CivilFromDays(days)
         IN  IF days < -719162 \/ days > 2932896 THEN None
             ELSE Some([year |-> date.year, month |-> date.month, day |-> date.day,
                        weekday |-> (days + 4) % 7,
                        hour |-> secs \div 3600,
                        minute |-> (secs % 3600) \div 60,
                        second |-> secs % 60])

\* %a, from Sunday on, and %b
DayNames == << << "S", "u", "n" >>, << "M", "o", "n" >>, << "T", "u", "e" >>,
               << "W", "e", "d" >>, << "T", "h", "u" >>, << "F", "r", "i" >>,
               << "S", "a", "t" >> >>
MonthNames == << << "J", "a", "n" >>, << "F", "e", "b" >>, << "M", "a", "r" >>,
                 << "A", "p", "r" >>, << "M", "a", "y" >>, << "J", "u", "n" >>,
                 << "J", "u", "l" >>, << "A", "u", "g" >>, << "S", "e", "p" >>,
                 << "O", "c", "t" >>, << "N", "o", "v" >>, << "D", "e", "c" >> >>

TwoDigits(n) == << Digits[(n \div 10) + 1], Digits[(n % 10) + 1] >>

\* %Y as the C library prints it: the year in decimal, not padded
RECURSIVE Decimal(_)
Decimal(n) ==
    IF n < 10 THEN << Digits[n + 1] >>
    ELSE Decimal(n \div 10) \o << Digits[(n % 10) + 1] >>

\* dt.strftime("%a %b %d %Y %H:%M:%S")
FormatTimestamp(dt) ==
    DayNames[dt.weekday + 1] \o << " " >> \o MonthNames[dt.month] \o << " " >>
        \o TwoDigits(dt.day) \o << " " >> \o Decimal(dt.year) \o << " " >>
        \o TwoDigits(dt.hour) \o << ":" >> \o TwoDigits(dt.minute) \o << ":" >>
        \o TwoDigits(dt.second)

\* the try block of the `|t:|` branch: the text of the timestamp, or None
\* when int() or fromtimestamp() raised and the except clause ran
TryTimestamp(field) ==
    IF IsNone(ParseInt(field)) THEN None
    ELSE IF IsNone(FromTimestamp(Value(ParseInt(field)))) THEN None
    ELSE Some(FormatTimestamp(Value(FromTimestamp(Value(ParseInt(field))))))

BuildInit == [p1 |-> DefaultP1, p2 |-> DefaultP2, fmt |-> CustomGame, ts |-> None]

\* one turn of the `for ln in protocol_lines` loop; parts[k] of the code is
\* Split(ln)[k + 1]
BuildStep(st, ln) ==
    IF StartsWith(ln, PLAYER_P1)
    THEN IF Len(Split(ln)) > 3 /\ Len(Split(ln)[4]) > 0
         THEN [st EXCEPT !.p1 = Split(ln)[4]] ELSE st
    ELSE IF StartsWith(ln, PLAYER_P2)
    THEN IF Len(Split(ln)) > 3 /\ Len(Split(ln)[4]) > 0
         THEN [st EXCEPT !.p2 = Split(ln)[4]] ELSE st
    ELSE IF StartsWith(ln, TIER)
    THEN IF Len(Split(ln)) > 2 /\ Len(Split(ln)[3]) > 0
         THEN [st EXCEPT !.fmt = Split(ln)[3]] ELSE st
    ELSE IF IsNone(st.ts) /\ StartsWith(ln, T_LINE)
    THEN [st EXCEPT !.ts = TryTimestamp(Split(ln)[3])]
    ELSE st

RECURSIVE BuildScan(_, _)
BuildScan(st, lines) ==
    IF Len(lines) = 0 THEN st
    ELSE BuildScan(BuildStep(st, Head(lines)), Tail(lines))

FromLog(t) == [source |-> "t:", text |-> t]
\* datetime.now(timezone.utc): the clock's reading, whatever it is
UtcNow == [source |-> "utcnow", text |-> << >>]

\* the log_dict handed to Replay.create_replay_object
build_replay_object(lines) ==
    LET st == BuildScan(BuildInit, lines)
    IN  [p1 |-> st.p1,
         p2 |-> st.p2,
         format |-> st.fmt,
         timestamp |-> IF IsNone(st.ts) THEN UtcNow ELSE FromLog(Value(st.ts)),
         log |-> lines \o << << >> >>]

-----------------------------------------------------------------------------
(* The supervisor: is_output_valid, run_simulation_script, main_loop       *)

EXPECTED_BATTLES == 1
MAX_ITERATIONS == 100

END_NEWLINE == END \o << "\n" >>

\* str.count(sub): occurrences of sub from position i on, not overlapping
RECURSIVE Count(_, _, _)
Count(s, sub, i) ==
    IF i + Len(sub) - 1 > Len(s) THEN 0
    ELSE IF SubSeq(s, i, i + Len(sub) - 1) = sub
    THEN 1 + Count(s, sub, i + Len(sub))
    ELSE Count(s, sub, i + 1)

\* what a path may hold: nothing, a directory, a file whose bytes are not
\* UTF-8, or a file of text
Absent == [kind |-> "absent", content |-> << >>]
Directory == [kind |-> "directory", content |-> << >>]
Undecodable == [kind |-> "undecodable", content |-> << >>]
TextFile(s) == [kind |-> "text", content |-> s]

Result(b) == [raised |-> "", value |-> b]
Raised(e) == [raised |-> e, value |-> FALSE]

\* os.path.exists() answers for a directory as for a file; open() then raises
\* on a directory, and f.read() on bytes that do not decode
is_output_valid(path, min_battles) ==
    IF path.kind = "absent" THEN Result(FALSE)
    ELSE IF path.kind = "directory" THEN Raised("IsADirectoryError")
    ELSE IF path.kind = "undecodable" THEN Raised("UnicodeDecodeError")
    ELSE Result(Count(ReadText(path.content), END_NEWLINE, 1) >= min_battles)

-----------------------------------------------------------------------------
(* Inputs of the segmenter                                                 *)

MaxLines == 4

StartPadded == << "\f", "[", "[", "[", "[", "[", " " >>
EndPadded == << "]", "]", "]", "]", "]", " " >>
HeaderAb == << "A", "b" >>
ProtoX == << "|", "x" >>
Blank == << >>
ProtoWithEnd == << "|", "]", "]", "]", "]", "]" >>
SixOpen == << "[", "[", "[", "[", "[", "[" >>

SegLines ==
    { START, END, StartPadded, EndPadded, HeaderAb, ProtoX, Blank,
      ProtoWithEnd, SixOpen }

SeqsUpTo(S, n) == UNION { [1..k -> S] : k \in 0..n }

LF == << "\n" >>
CRLF == << "\r", "\n" >>

\* a file of these lines: eol after every line but the last, last after that
RECURSIVE FileOf(_, _, _)
FileOf(lines, eol, last) ==
    IF Len(lines) = 0 THEN << >>
    ELSE IF Len(lines) = 1 THEN lines[1] \o last
    ELSE Head(lines) \o eol \o FileOf(Tail(lines), eol, last)

\* a file of these lines, each ended by a line feed
Unlines(lines) == FileOf(lines, LF, LF)

\* line feeds throughout; no terminator on the last line; CR LF throughout
Endings == { << LF, LF >>, << LF, << >> >>, << CRLF, CRLF >> }

Texts ==
    { FileOf(ls, e[1], e[2]) : ls \in SeqsUpTo(SegLines, MaxLines), e \in Endings }

NoSelection == [raised |-> "", block |-> None, key |-> None, at |-> 0, seen |-> 0]
NoOverrides == [p1_name |-> None, p2_name |-> None,
                p1_avatar |-> None, p2_avatar |-> None]
NoReplay == [p1 |-> << >>, p2 |-> << >>, format |-> << >>,
             timestamp |-> << >>, log |-> << >>]

SegIdle ==
    /\ mode = ""
    /\ blocks = << >>
    /\ matchup = << >>
    /\ occurrence = 0
    /\ selected = NoSelection

RwIdle ==
    /\ protocol_lines = << >>
    /\ overrides = NoOverrides
    /\ out = << >>
    /\ out_again = << >>
    /\ replay = NoReplay

SupIdle ==
    /\ current_iteration = 0
    /\ output_file = Absent
    /\ last_check = FALSE
    /\ observed_valid = {}
    /\ retries = 0

\* iter_battles(path), run to the end of the generator
IterBattles ==
    /\ pc = "peek"
    /\ mode' = IF MarkerFormat(text) THEN "marked" ELSE "fallback"
    /\ blocks' = iter_battles(text)
    /\ pc' = "listed"
    /\ UNCHANGED << text, matchup, occurrence, selected >>
    /\ UNCHANGED rwVars
    /\ UNCHANGED supVars

SegInit ==
    /\ pc = "peek"
    /\ text \in Texts
    /\ SegIdle
    /\ RwIdle
    /\ SupIdle

SegNext == IterBattles

SpecSegmenter == SegInit /\ [][SegNext]_vars

-----------------------------------------------------------------------------
(* Properties of the segmenter                                             *)

\* a marker line: a line that equals the sigil after trimming whitespace
IsStartMarker(line) == Strip(line) = START
IsEndMarker(line) == Strip(line) = END
IsMarker(line) == IsStartMarker(line) \/ IsEndMarker(line)
IsPipeLine(line) == Len(line) > 0 /\ line[1] = "|"
IsNonBlank(line) == \E i \in 1..Len(line) : ~IsSpace(line[i])

MarkerCount(lines) == Cardinality({ i \in 1..Len(lines) : IsMarker(lines[i]) })

\* the index of the n-th marker line
NthMarker(lines, n) ==
    CHOOSE i \in 1..Len(lines) :
        /\ IsMarker(lines[i])
        /\ Cardinality({ j \in 1..i : IsMarker(lines[j]) }) = n

\* the marker lines alternate start, end, ..., from a start to an end
WellFormedMarked(lines) ==
    /\ MarkerCount(lines) > 0
    /\ MarkerCount(lines) % 2 = 0
    /\ \A n \in 1..MarkerCount(lines) :
           IF n % 2 = 1
           THEN IsStartMarker(lines[NthMarker(lines, n)])
           ELSE IsEndMarker(lines[NthMarker(lines, n)])

\* the lines strictly between the k-th start marker and its end marker
Region(lines, k) ==
    SubSeq(lines, NthMarker(lines, 2 * k - 1) + 1, NthMarker(lines, 2 * k) - 1)

\* the block a region describes: its first non-blank line, trimmed, is the
\* header and the '|' lines after the header are the protocol lines
RegionBlock(region) ==
    LET nb == { i \in 1..Len(region) : IsNonBlank(region[i]) }
    IN  IF nb = {}
        THEN [header |-> UNKNOWN_MATCHUP, protocol_lines |-> << >>]
        ELSE LET h == CHOOSE i \in nb : \A j \in nb : i <= j
             IN  [header |-> Strip(region[h]),
                  protocol_lines |->
                      SelectSeq(SubSeq(region, h + 1, Len(region)), IsPipeLine)]

\* C1: on well-formed marked input iter_battles yields one block per
\* start/end marker pair, the k-th block being that of the k-th pair.
C1_OneBlockPerPair ==
    (pc = "listed" /\ WellFormedMarked(FileLines(text))) =>
        /\ Len(blocks) = MarkerCount(FileLines(text)) \div 2
        /\ \A k \in 1..Len(blocks) :
               blocks[k] = RegionBlock(Region(FileLines(text), k))

\* two pairs of markers, the last end marker without a line terminator
C1_Witness ==
    /\ pc = "listed"
    /\ WellFormedMarked(FileLines(text))
    /\ MarkerCount(FileLines(text)) = 4
    /\ text[Len(text)] # "\n"
    /\ Len(blocks) = 2

\* start-marker lines with no end-marker line after them
UnterminatedStarts(lines) ==
    { k \in 1..Len(lines) :
        /\ IsStartMarker(lines[k])
        /\ \A j \in (k + 1)..Len(lines) : ~IsEndMarker(lines[j]) }

\* the input with the trailing partial region, from line k on, removed
Truncated(file, k) == Unlines(SubSeq(FileLines(file), 1, k - 1))

\* every occurrence of a sigil in the input is a marker line, so that the
\* peek of iter_battles finds a sigil exactly when a marker line exists
SigilsOnlyInMarkers(lines) ==
    \A i \in 1..Len(lines) :
        (Contains(lines[i], START) \/ Contains(lines[i], END)) => IsMarker(lines[i])

\* C2 as stated (on inputs whose sigils all are marker lines): an input ending
\* with an unterminated block yields as many blocks as the same input with
\* the trailing partial region removed.
C2_SameCountAsTruncated ==
    (pc = "listed" /\ SigilsOnlyInMarkers(FileLines(text))) =>
        \A k \in UnterminatedStarts(FileLines(text)) :
            Len(blocks) = Len(iter_battles(Truncated(text, k)))

\* C2 amended: the input yields no more blocks than the truncated input; the
\* counts are equal when the truncated input still holds both sigils or the
\* input itself is parsed in Fallback mode; otherwise the input yields no
\* block and the truncated input its single Fallback block.  In Marked mode
\* the blocks are those of the marked scan of the truncated input: the
\* partial block is not emitted.
C2_NoAdditionalBlocks ==
    pc = "listed" =>
        \A k \in UnterminatedStarts(FileLines(text)) :
            LET cut == Truncated(text, k)
                n == Len(iter_battles(cut))
            IN  /\ Len(blocks) <= n
                /\ (MarkerFormat(cut) \/ mode = "fallback") => Len(blocks) = n
                /\ (mode = "marked" /\ ~MarkerFormat(cut)) =>
                       (Len(blocks) = 0 /\ n = 1)
                /\ mode = "marked" => blocks = iter_battles_marked(cut)

C2_Witness ==
    /\ pc = "listed"
    /\ mode = "marked"
    /\ Len(blocks) = 1
    /\ \E k \in UnterminatedStarts(FileLines(text)) :
           /\ k < Len(FileLines(text))
           /\ MarkerFormat(Truncated(text, k))

\* the first non-blank line that does not start with '|'
FallbackHeader(lines) ==
    LET hs == { i \in 1..Len(lines) : IsNonBlank(lines[i]) /\ ~IsPipeLine(lines[i]) }
    IN  IF hs = {} THEN UNKNOWN_MATCHUP
        ELSE Strip(lines[CHOOSE i \in hs : \A j \in hs : i <= j])

\* C3 as stated: when no line is a start marker or no line is an end marker,
\* iter_battles yields exactly one block, holding every '|' line in order and
\* the first non-empty non-'|' line as header (or UNKNOWN_MATCHUP).
C3_FallbackWithoutMarkerLines ==
    (/\ pc = "listed"
     /\ \/ \A i \in 1..Len(FileLines(text)) : ~IsStartMarker(FileLines(text)[i])
        \/ \A i \in 1..Len(FileLines(text)) : ~IsEndMarker(FileLines(text)[i])) =>
        /\ mode = "fallback"
        /\ blocks = << [header |-> FallbackHeader(FileLines(text)),
                        protocol_lines |-> SelectSeq(FileLines(text), IsPipeLine)] >>

-----------------------------------------------------------------------------
(* Selecting by matchup: inputs, specification, properties                 *)

MaxChunks == 3
MaxOccurrence == 2

HeaderPaddedaB == << " ", "a", "B", "\f" >>
HeaderEe == << "É", "e" >>

\* pieces of a results file: whole blocks and a stray line
Chunks ==
    { << START, HeaderAb, END >>,
      << StartPadded, HeaderPaddedaB, ProtoX, EndPadded >>,
      << START, HeaderEe, ProtoX, END >>,
      << START, END >>,
      << HeaderAb >> }

RECURSIVE Flatten(_)
Flatten(chunks) ==
    IF Len(chunks) = 0 THEN << >> ELSE Head(chunks) \o Flatten(Tail(chunks))

\* the chunks in a file ended by line feeds, and in one ended by CR LF
ChunkTexts ==
    { FileOf(Flatten(cs), eol, eol) : cs \in SeqsUpTo(Chunks, MaxChunks),
                                      eol \in {LF, CRLF} }

Matchups ==
    { << "a", "b" >>,
      << " ", "A", "B", " " >>,
      << "A", "b" >>,
      << "é", "E" >>,
      << "A", " ", "b" >>,
      << "u", "n", "k", "n", "o", "w", "n", "_", "m", "a", "t", "c", "h", "u", "p" >> }

\* get_battle_by_matchup(path, matchup, occurrence)
GetBattleByMatchup ==
    /\ pc = "peek"
    /\ \E m \in Matchups, occ \in 0..MaxOccurrence :
           LET r == get_battle_by_matchup(text, m, occ)
           IN  /\ matchup' = m
               /\ occurrence' = occ
               /\ selected' = r
               /\ blocks' = SubSeq(iter_battles(text), 1, r.seen)
    /\ mode' = IF MarkerFormat(text) THEN "marked" ELSE "fallback"
    /\ pc' = "selected"
    /\ UNCHANGED text
    /\ UNCHANGED rwVars
    /\ UNCHANGED supVars

MatchupInit ==
    /\ pc = "peek"
    /\ text \in ChunkTexts
    /\ SegIdle
    /\ RwIdle
    /\ SupIdle

MatchupNext == GetBattleByMatchup

SpecMatchup == MatchupInit /\ [][MatchupNext]_vars

\* the header equals the key, ignoring case and surrounding whitespace
SameMatchup(h, m) ==
    LET a == Strip(h)
        b == Strip(m)
    IN  /\ Len(a) = Len(b)
        /\ \A i \in 1..Len(a) : LowerChar(a[i]) = LowerChar(b[i])

\* the emitted blocks whose header matches the key
Matching(bs, m) == { i \in 1..Len(bs) : SameMatchup(bs[i].header, m) }

\* C4: get_battle_by_matchup returns the occurrence-th (zero-based) matching
\* block in emission order, and raises ValueError naming the key and the
\* occurrence, returning no block, exactly when fewer than occurrence + 1
\* blocks match.
C4_OccurrenceOrNotFound ==
    pc = "selected" =>
        LET emitted == iter_battles(text)
            hits == Matching(emitted, matchup)
        IN  IF Cardinality(hits) >= occurrence + 1
            THEN /\ selected.raised = ""
                 /\ \E i \in hits :
                        /\ Cardinality({ j \in hits : j < i }) = occurrence
                        /\ selected.block = Some(emitted[i])
            ELSE /\ selected.raised = "ValueError"
                 /\ selected.block = None
                 /\ selected.key = Some(matchup)
                 /\ selected.at = occurrence

\* occurrence 1 asked for where exactly one block matches, by a key that
\* differs from the header in case
C4_Witness ==
    /\ pc = "selected"
    /\ mode = "marked"
    /\ occurrence = 1
    /\ Cardinality(Matching(iter_battles(text), matchup)) = 1
    /\ \E i \in Matching(iter_battles(text), matchup) :
           iter_battles(text)[i].header # matchup
    /\ selected.raised = "ValueError"

-----------------------------------------------------------------------------
(* Rewriting and building: inputs and specifications                       *)

MaxProtocol == 3

P1Full == << "|", "p", "l", "a", "y", "e", "r", "|", "p", "1", "|", "A", "|", "1", "|" >>
P2Full == << "|", "p", "l", "a", "y", "e", "r", "|", "p", "2", "|", "B", "|", "2", "|" >>
P2Short == << "|", "p", "l", "a", "y", "e", "r", "|", "p", "2", "|", "B" >>
StartBare == << "|", "s", "t", "a", "r", "t" >>

RewriteLines == { P1Full, P2Full, P2Short, START_LINE, StartBare, ProtoX }

NameX == << "X" >>
Avatar7 == << "7" >>
EmptyStr == << >>

OverrideSets ==
    [p1_name : {None, Some(EmptyStr), Some(NameX)},
     p2_name : {None, Some(EmptyStr), Some(NameX)},
     p1_avatar : {None, Some(Avatar7)},
     p2_avatar : {None, Some(Avatar7)}]

\* override_players(block.protocol_lines, ...)
OverridePlayers ==
    /\ pc = "rewrite"
    /\ out' = override_players(protocol_lines, overrides)
    /\ pc' = "rewritten"
    /\ UNCHANGED << protocol_lines, overrides, out_again, replay >>
    /\ UNCHANGED segVars
    /\ UNCHANGED supVars

\* override_players applied, with the same values, to the list it returned
OverridePlayersAgain ==
    /\ pc = "rewritten"
    /\ out_again' = override_players(out, overrides)
    /\ pc' = "rewritten_twice"
    /\ UNCHANGED << protocol_lines, overrides, out, replay >>
    /\ UNCHANGED segVars
    /\ UNCHANGED supVars

RewriteInit ==
    /\ pc = "rewrite"
    /\ protocol_lines \in SeqsUpTo(RewriteLines, MaxProtocol)
    /\ overrides \in OverrideSets
    /\ out = << >>
    /\ out_again = << >>
    /\ replay = NoReplay
    /\ text = << >>
    /\ SegIdle
    /\ SupIdle

RewriteNext == OverridePlayers \/ OverridePlayersAgain

SpecRewriter == RewriteInit /\ [][RewriteNext]_vars

P1Named == << "|", "p", "l", "a", "y", "e", "r", "|", "p", "1", "|", "C", "|" >>
P1Unnamed == PLAYER_P1
P2Named == << "|", "p", "l", "a", "y", "e", "r", "|", "p", "2", "|", "D" >>
TierG == << "|", "t", "i", "e", "r", "|", "G" >>
TierH == << "|", "t", "i", "e", "r", "|", "H", "|" >>
TierEmpty == TIER
Time5 == << "|", "t", ":", "|", "5" >>
Time3723 == << "|", "t", ":", "|", "\f", "3", "_", "7", "2", "3" >>
TimeBad == << "|", "t", ":", "|", "x" >>
Time2023 == << "|", "t", ":", "|", "1", "7", "0", "0", "0", "0", "0", "0", "0", "0", "|" >>
Time1969 == << "|", "t", ":", "|", "-", "8", "6", "4", "0", "1" >>
TimeYear10000 ==
    << "|", "t", ":", "|", "2", "5", "3", "4", "0", "2", "3", "0", "0", "8", "0", "0" >>

BuildLines ==
    { P1Full, P1Named, P1Unnamed, P2Named, TierG, TierH, TierEmpty,
      Time5, Time3723, TimeBad, Time2023, Time1969, TimeYear10000 }

\* build_replay_object(protocol, roomid, show_full_damage)
BuildReplayObject ==
    /\ pc = "build"
    /\ replay' = build_replay_object(protocol_lines)
    /\ pc' = "built"
    /\ UNCHANGED << protocol_lines, overrides, out, out_again >>
    /\ UNCHANGED segVars
    /\ UNCHANGED supVars

BuilderInit ==
    /\ pc = "build"
    /\ protocol_lines \in SeqsUpTo(BuildLines, MaxProtocol)
    /\ overrides = NoOverrides
    /\ out = << >>
    /\ out_again = << >>
    /\ replay = NoReplay
    /\ text = << >>
    /\ SegIdle
    /\ SupIdle

BuilderNext == BuildReplayObject

SpecBuilder == BuilderInit /\ [][BuilderNext]_vars

-----------------------------------------------------------------------------
(* Properties of the rewriter                                              *)

IsP1Line(line) == Len(line) >= 11 /\ SubSeq(line, 1, 11) = PLAYER_P1
IsP2Line(line) == Len(line) >= 11 /\ SubSeq(line, 1, 11) = PLAYER_P2
IsPlayerLine(line) == IsP1Line(line) \/ IsP2Line(line)
NotP1Line(line) == ~IsP1Line(line)

\* pipe field k (zero-based) of a record line; empty when the line is shorter
Field(line, k) == IF Len(Split(line)) > k THEN Split(line)[k + 1] ELSE << >>

\* a start record: a pipe-delimited line whose record type is `start`, with
\* or without fields after it ("|start", "|start|", "|start|x")
IsStartRecord(line) ==
    /\ Len(line) > 0 /\ line[1] = "|"
    /\ Field(line, 1) = << "s", "t", "a", "r", "t" >>

OnlyP1Name(o) ==
    /\ ~IsNone(o.p1_name)
    /\ IsNone(o.p2_name) /\ IsNone(o.p1_avatar) /\ IsNone(o.p2_avatar)

\* C5 as stated: with only the p1-name override set, every side-2 player
\* line and every non-player line of the result is byte-identical to the
\* input line, in the same relative order, and every side-1 player line
\* keeps its avatar field.
C5_OnlyP1NameChanges ==
    (pc = "rewritten" /\ OnlyP1Name(overrides)) =>
        /\ SelectSeq(out, NotP1Line) = SelectSeq(protocol_lines, NotP1Line)
        /\ FoundP1(protocol_lines) =>
               /\ Len(out) = Len(protocol_lines)
               /\ \A i \in 1..Len(out) :
                      IsP1Line(protocol_lines[i]) =>
                          /\ IsP1Line(out[i])
                          /\ Field(out[i], 4) = Field(protocol_lines[i], 4)

\* C6 as stated: override_players applied twice with the same override
\* values gives what it gives applied once.
C6_Idempotent == pc = "rewritten_twice" => out_again = out

\* the zero-based index the claim names: that of the first start record
\* line, or 0 when there is none
Anchor(lines) ==
    IF \E i \in 1..Len(lines) : IsStartRecord(lines[i])
    THEN (CHOOSE i \in 1..Len(lines) :
              IsStartRecord(lines[i]) /\ \A j \in 1..(i - 1) : ~IsStartRecord(lines[j])) - 1
    ELSE 0

\* a synthesized player line of a side: it carries the name supplied, or the
\* side token when the name supplied is empty
IsNewPlayerLine(line, prefix, name, side) ==
    /\ Len(line) >= 11 /\ SubSeq(line, 1, 11) = prefix
    /\ Field(line, 3) = IF Len(Value(name)) > 0 THEN Value(name) ELSE side

NoPlayerLinesBothNames ==
    /\ \A i \in 1..Len(protocol_lines) : ~IsPlayerLine(protocol_lines[i])
    /\ ~IsNone(overrides.p1_name)
    /\ ~IsNone(overrides.p2_name)

\* C9 as stated: without any player line in the input and with both name
\* overrides supplied, the result is the input with exactly two new player
\* lines, one per side, inserted together immediately before the first start
\* record line, or at index 0 when there is none; nothing else changes.
C9_TwoLinesInsertedAtAnchor ==
    (pc = "rewritten" /\ NoPlayerLinesBothNames) =>
        LET a == Anchor(protocol_lines)
            n == Len(protocol_lines)
        IN  /\ Len(out) = n + 2
            /\ SubSeq(out, 1, a) = SubSeq(protocol_lines, 1, a)
            /\ SubSeq(out, a + 3, n + 2) = SubSeq(protocol_lines, a + 1, n)
            /\ \/ /\ IsNewPlayerLine(out[a + 1], PLAYER_P2, overrides.p2_name, DefaultP2)
                  /\ IsNewPlayerLine(out[a + 2], PLAYER_P1, overrides.p1_name, DefaultP1)
               \/ /\ IsNewPlayerLine(out[a + 1], PLAYER_P1, overrides.p1_name, DefaultP1)
                  /\ IsNewPlayerLine(out[a + 2], PLAYER_P2, overrides.p2_name, DefaultP2)

-----------------------------------------------------------------------------
(* Properties of the record builder                                        *)

IsTierLine(line) == Len(line) >= 6 /\ SubSeq(line, 1, 6) = TIER
IsTimeLine(line) == Len(line) >= 4 /\ SubSeq(line, 1, 4) = T_LINE

\* field k of the first line of the kind whose field k is not empty, or the
\* default when no such line exists
FirstMatch(lines, IsKind(_), k, default) ==
    LET hits == { i \in 1..Len(lines) : IsKind(lines[i]) /\ Len(Field(lines[i], k)) > 0 }
    IN  IF hits = {} THEN default
        ELSE Field(lines[CHOOSE i \in hits : \A j \in hits : i <= j], k)

\* C7 as stated: player1, player2 and format are each taken from the first
\* line carrying a non-empty value, and are the defaults when none does.
C7_FirstMatchWins ==
    pc = "built" =>
        /\ replay.p1 = FirstMatch(protocol_lines, IsP1Line, 3, DefaultP1)
        /\ replay.p2 = FirstMatch(protocol_lines, IsP2Line, 3, DefaultP2)
        /\ replay.format = FirstMatch(protocol_lines, IsTierLine, 2, CustomGame)

\* C8 as stated: the timestamp comes from the first 't:' line only: from its
\* field 2 when that parses as an integer that converts to a UTC time, and
\* from the clock when it does not or no 't:' line exists, whatever later
\* 't:' lines hold.
C8_FirstTimeLineOnly ==
    pc = "built" =>
        LET ts == { i \in 1..Len(protocol_lines) : IsTimeLine(protocol_lines[i]) }
            first == CHOOSE i \in ts : \A j \in ts : i <= j
        IN  IF ts = {} THEN replay.timestamp.source = "utcnow"
            ELSE IF IsNone(TryTimestamp(Field(protocol_lines[first], 2)))
            THEN replay.timestamp.source = "utcnow"
            ELSE replay.timestamp =
                     FromLog(Value(TryTimestamp(Field(protocol_lines[first], 2))))

-----------------------------------------------------------------------------
(* The supervisor: files, specification, properties                        *)

MaxRetries == 2

\* what may be found at an output path
PathStates ==
    { Absent,
      Directory,
      Undecodable,
      TextFile(<< >>),
      TextFile(END),
      TextFile(Unlines(<< START, HeaderAb >>)),
      TextFile(Unlines(<< EndPadded >>)),
      TextFile(Unlines(<< START, HeaderAb, END >>)),
      TextFile(FileOf(<< START, HeaderAb, END >>, LF, << >>)),
      TextFile(FileOf(<< START, END, START, END >>, CRLF, CRLF)),
      TextFile(Unlines(<< ProtoWithEnd >>)) }

\* `while current_iteration < MAX_ITERATIONS`
WhileTest ==
    /\ pc = "while"
    /\ pc' = IF current_iteration < MAX_ITERATIONS THEN "check" ELSE "done"
    /\ UNCHANGED supVars
    /\ UNCHANGED segVars
    /\ UNCHANGED rwVars

\* is_output_valid(...) raises: nothing catches it, main_loop is left
CheckRaises ==
    /\ pc = "check"
    /\ is_output_valid(output_file, EXPECTED_BATTLES).raised # ""
    /\ pc' = "raised"
    /\ UNCHANGED supVars
    /\ UNCHANGED segVars
    /\ UNCHANGED rwVars

\* `if not is_output_valid(...)`: the branch that retries
CheckInvalid ==
    /\ pc = "check"
    /\ is_output_valid(output_file, EXPECTED_BATTLES) = Result(FALSE)
    /\ last_check' = FALSE
    /\ pc' = "run"
    /\ UNCHANGED << current_iteration, output_file, observed_valid, retries >>
    /\ UNCHANGED segVars
    /\ UNCHANGED rwVars

\* the else branch: `current_iteration += 1`; the next turn of the loop
\* looks at the next path, which holds whatever is on disk there
CheckValid ==
    /\ pc = "check"
    /\ is_output_valid(output_file, EXPECTED_BATTLES) = Result(TRUE)
    /\ last_check' = TRUE
    /\ current_iteration' = current_iteration + 1
    /\ observed_valid' = observed_valid \cup {current_iteration + 1}
    /\ output_file' \in PathStates
    /\ retries' = IF current_iteration + 1 < MAX_ITERATIONS THEN 0 ELSE retries
    /\ pc' = "while"
    /\ UNCHANGED segVars
    /\ UNCHANGED rwVars

\* run_simulation_script(next_output_file): subprocess.run with check=False;
\* the simulation leaves at the path what it likes
RunSimulationScript ==
    /\ pc = "run"
    /\ output_file' \in PathStates
    /\ retries' = IF retries < MaxRetries THEN retries + 1 ELSE retries
    /\ pc' = "sleep"
    /\ UNCHANGED << current_iteration, last_check, observed_valid >>
    /\ UNCHANGED segVars
    /\ UNCHANGED rwVars

\* time.sleep(2)
Sleep ==
    /\ pc = "sleep"
    /\ pc' = "while"
    /\ UNCHANGED supVars
    /\ UNCHANGED segVars
    /\ UNCHANGED rwVars

SupervisorInit ==
    /\ pc = "while"
    /\ current_iteration = 0
    /\ output_file \in PathStates
    /\ last_check = FALSE
    /\ observed_valid = {}
    /\ retries = 0
    /\ text = << >>
    /\ SegIdle
    /\ RwIdle

SupervisorNext ==
    \/ WhileTest
    \/ CheckRaises
    \/ CheckInvalid
    \/ CheckValid
    \/ RunSimulationScript
    \/ Sleep

SpecSupervisor == SupervisorInit /\ [][SupervisorNext]_vars

\* the file read holds at least n end markers, each a "]]]]]" followed by a
\* line terminator
HasEndMarkers(path, n) ==
    /\ path.kind = "text"
    /\ Cardinality({ i \in 1..Len(path.content) :
                       /\ i + 5 <= Len(path.content)
                       /\ SubSeq(path.content, i, i + 4) = END
                       /\ path.content[i + 5] \in {"\n", "\r"} }) >= n

\* main_loop is over: by the end of the while loop or by an exception
LoopLeft == pc \in {"done", "raised"}

\* C10 as stated: current_iteration never decreases, and grows, by exactly 1,
\* only in a step that found the current file present with at least
\* EXPECTED_BATTLES end markers; a file found invalid is always followed by a
\* run of the simulation for the same file, however many runs it has had; and
\* main_loop is left only after each of the MAX_ITERATIONS files was observed
\* valid.
C10_AdvanceOnlyWhenValid ==
    /\ [][/\ current_iteration' >= current_iteration
          /\ current_iteration' # current_iteration =>
                 /\ current_iteration' = current_iteration + 1
                 /\ pc = "check"
                 /\ HasEndMarkers(output_file, EXPECTED_BATTLES)
          /\ (pc = "check" /\ ~HasEndMarkers(output_file, EXPECTED_BATTLES)) =>
                 /\ pc' = "run"
                 /\ current_iteration' = current_iteration
          /\ pc = "run" =>
                 /\ pc' = "sleep"
                 /\ current_iteration' = current_iteration]_vars
    /\ [](LoopLeft =>
              /\ current_iteration = MAX_ITERATIONS
              /\ observed_valid = 1..MAX_ITERATIONS)

=============================================================================
